---- MODULE Spec2Model ----
(***************************************************************************)
(* Back-testing engine of road_to_billions: the position simulators        *)
(* (NoStrategy, SimpleStrategy, TrailingStopStrategy in its single- and    *)
(* dual-resolution forms) replayed bar by bar over a signaled series.      *)
(*                                                                         *)
(* Numbers.  The code computes in floating point.  The model computes the  *)
(* same expressions exactly: a value is n/d * (999/1000)^k, kept as the    *)
(* record [n, d, k] with n/d in lowest terms.  The exponent k counts the   *)
(* "*= 0.999" fee multiplications a quantity went through, which keeps     *)
(* every integer small enough for 32-bit arithmetic.                       *)
(***************************************************************************)
EXTENDS Integers, Sequences, FiniteSets, TLC

\* ------------------------------------------------------------------ bounds
\* Longest daily series, longest daily and hourly series of the dual-resolution
\* run, and longest series of a run whose starting capital is not positive.
MaxBars == 3
MaxDays == 2
MaxHours == 3
MaxBarsUnfunded == 1

\* ------------------------------------------------------------ exact numbers
Abs(x) == IF x < 0 THEN -x ELSE x

Sgn(x) == IF x > 0 THEN 1 ELSE IF x < 0 THEN -1 ELSE 0

RECURSIVE GCD(_, _)
GCD(a, b) == IF b = 0 THEN a ELSE GCD(b, a % b)

\* n/d * 0.999^k in lowest terms, d > 0; zero is [0, 1, 0].
Norm(n, d, k) ==
    IF n = 0 THEN [n |-> 0, d |-> 1, k |-> 0]
    ELSE LET g == GCD(Abs(n), Abs(d))
             s == Sgn(d)
         IN [n |-> (s * n) \div g, d |-> Abs(d) \div g, k |-> k]

Q(n, d) == Norm(n, d, 0)

Zero == Q(0, 1)

One == Q(1, 1)

Mul(a, b) == Norm(a.n * b.n, a.d * b.d, a.k + b.k)

\* a / b for b # 0.
Div(a, b) == Norm(a.n * b.d, a.d * b.n, a.k - b.k)

\* Natural numbers of any size, as their base-1000 digits, lowest first.
RECURSIVE Digits(_)
Digits(x) == IF x = 0 THEN <<>> ELSE <<x % 1000>> \o Digits(x \div 1000)

RECURSIVE TimesSmall(_, _, _)
TimesSmall(ds, m, carry) ==
    IF ds = <<>> THEN Digits(carry)
    ELSE LET v == Head(ds) * m + carry
         IN <<v % 1000>> \o TimesSmall(Tail(ds), m, v \div 1000)

RECURSIVE TimesPow(_, _, _)
TimesPow(ds, m, e) == IF e = 0 THEN ds ELSE TimesPow(TimesSmall(ds, m, 0), m, e - 1)

RECURSIVE CmpDigits(_, _)
CmpDigits(a, b) ==
    IF Len(a) # Len(b) THEN Sgn(Len(a) - Len(b))
    ELSE IF Len(a) = 0 THEN 0
    ELSE IF a[Len(a)] # b[Len(b)] THEN Sgn(a[Len(a)] - b[Len(b)])
    ELSE CmpDigits(SubSeq(a, 1, Len(a) - 1), SubSeq(b, 1, Len(b) - 1))

\* Sign of X * 999^e - Y * 1000^e for X, Y > 0 and e >= 0.  The two quick
\* answers are exact: 999^e < 1000^e, and (1000/999)^e <= 1 + e/990 for
\* e <= 9.  The remaining case is computed digit by digit.
CmpPow(X, Y, e) ==
    IF e = 0 THEN Sgn(X - Y)
    ELSE IF X <= Y THEN -1
    ELSE IF e <= 9 /\ 990 * (X - Y) >= e * Y THEN 1
    ELSE CmpDigits(TimesPow(Digits(X), 999, e), [j \in 1 .. e |-> 0] \o Digits(Y))

\* Sign of a - b for a, b > 0.
CmpPos(a, b) ==
    LET X == a.n * b.d
        Y == b.n * a.d
    IN IF a.k >= b.k THEN CmpPow(X, Y, a.k - b.k)
       ELSE -CmpPow(Y, X, b.k - a.k)

\* Sign of a - b.
Cmp(a, b) ==
    LET sa == Sgn(a.n)
        sb == Sgn(b.n)
    IN IF sa # sb THEN Sgn(sa - sb)
       ELSE IF sa = 0 THEN 0
       ELSE IF sa > 0 THEN CmpPos(a, b)
       ELSE CmpPos([b EXCEPT !.n = -b.n], [a EXCEPT !.n = -a.n])

Lt(a, b) == Cmp(a, b) < 0

Le(a, b) == Cmp(a, b) <= 0

Eq(a, b) == Cmp(a, b) = 0

\* Python's max(a, b): the first argument unless the second is greater.
PyMax(a, b) == IF Cmp(b, a) > 0 THEN b ELSE a

\* 1 - p for a plain fraction p (k = 0), as in "1. - stop_loss_pct".
OneMinus(p) == Norm(p.d - p.n, p.d, 0)

\* 1 + p for a plain fraction p (k = 0), as in "1. + trailing_stop_pct".
OnePlus(p) == Norm(p.d + p.n, p.d, 0)

\* -------------------------------------------------------------- fee model
\* "capital *= 0.999" and "platform_fees += ... * 0.001".
Fee == [keep |-> [n |-> 1, d |-> 1, k |-> 1], rate |-> Q(1, 1000)]

\* The same simulation with the fee rate set to 0.
NoFee == [keep |-> One, rate |-> Zero]

\* platform_fees is a sum of values with different exponents k: it is kept
\* as the set of its terms, one per exponent.
NoFees == {}

AddFee(fees, v) ==
    IF v.n = 0 THEN fees
    ELSE IF \E t \in fees : t.k = v.k
    THEN LET t == CHOOSE u \in fees : u.k = v.k
             sum == Norm(t.n * v.d + v.n * t.d, t.d * v.d, v.k)
         IN (fees \ {t}) \cup (IF sum.n = 0 THEN {} ELSE {sum})
    ELSE fees \cup {v}

\* ---------------------------------------------------------------- drawdown
\* (peak - current_capital) / peak = 1 - current_capital / peak: a drawdown
\* is kept as r = current_capital / peak.  nan is numpy's 0/0.
DD(r) == [r |-> r, nan |-> FALSE]

NoDrawdown == DD(One)

NaN == [r |-> One, nan |-> TRUE]

\* max(current_drawdown, drawdown) of Python: a comparison with nan is false.
PyMaxDD(a, b) == IF ~a.nan /\ ~b.nan /\ Lt(b.r, a.r) THEN b ELSE a

DDIsZero(x) == ~x.nan /\ Eq(x.r, One)

DDInUnit(x) == ~x.nan /\ Le(Zero, x.r) /\ Le(x.r, One)

\* ------------------------------------------------------- simulation state
\* InitRun with "drawdown = capital" for "drawdown = 0.".
InitRunDrawdownFromCapital(capital) ==
    [capital |-> capital, current_capital |-> capital, capital_curve |-> <<>>,
     platform_fees |-> NoFees, peak |-> capital, positions |-> Zero,
     drawdown |-> DD(Norm(capital.d - capital.n, capital.d, 0)),
     stop_loss |-> Zero, trailing_stop |-> Zero,
     day |-> 0, exc |-> "",
     events |-> {}, n_entries |-> 0, n_exits |-> 0, pe |-> Zero, px |-> Zero]

\* The locals of apply, as initialised before the loop.  events, n_entries,
\* n_exits, pe and px observe the run and are read by no transition.
InitRun(capital) ==
    [capital |-> capital, current_capital |-> capital, capital_curve |-> <<>>,
     platform_fees |-> NoFees, peak |-> capital, positions |-> Zero,
     drawdown |-> NoDrawdown, stop_loss |-> Zero, trailing_stop |-> Zero,
     day |-> 0, exc |-> "",
     events |-> {}, n_entries |-> 0, n_exits |-> 0, pe |-> Zero, px |-> Zero]

\* Entry without "positions *= 0.999".
EntryUncharged(s, entry_price, F) ==
    LET positions == Div(s.capital, entry_price)
    IN [s EXCEPT !.positions = positions,
                 !.platform_fees = AddFee(@, Mul(Mul(positions, entry_price), F.rate)),
                 !.capital = Zero,
                 !.events = @ \cup {"entry"},
                 !.n_entries = @ + 1,
                 !.pe = entry_price]

\* FLAT -> LONG at entry_price.
Entry(s, entry_price, F) ==
    LET positions == Div(s.capital, entry_price)
    IN [s EXCEPT !.positions = Mul(positions, F.keep),
                 !.platform_fees = AddFee(@, Mul(Mul(positions, entry_price), F.rate)),
                 !.capital = Zero,
                 !.events = @ \cup {"entry"},
                 !.n_entries = @ + 1,
                 !.pe = entry_price]

\* Exit recording the cash in the capital curve as well.
ExitRecorded(s, price, F) ==
    LET capital == Mul(s.positions, price)
    IN [s EXCEPT !.capital = Mul(capital, F.keep),
                 !.platform_fees = AddFee(@, Mul(capital, F.rate)),
                 !.positions = Zero,
                 !.current_capital = Mul(capital, F.keep),
                 !.capital_curve = Append(@, Mul(capital, F.keep)),
                 !.events = @ \cup {"exit"},
                 !.n_exits = @ + 1,
                 !.px = price]

\* LONG -> FLAT at price.
Exit(s, price, F) ==
    LET capital == Mul(s.positions, price)
    IN [s EXCEPT !.capital = Mul(capital, F.keep),
                 !.platform_fees = AddFee(@, Mul(capital, F.rate)),
                 !.positions = Zero,
                 !.events = @ \cup {"exit"},
                 !.n_exits = @ + 1,
                 !.px = price]

\* current_capital, peak, drawdown and the capital curve after a bar.  The
\* operands are Python floats while FLAT from the start, so a zero peak raises.
MarkToMarket(s, close) ==
    LET current_capital == IF s.positions = Zero THEN s.capital
                           ELSE Mul(s.positions, close)
        peak == PyMax(current_capital, s.peak)
    IN IF peak = Zero
       THEN [s EXCEPT !.current_capital = current_capital, !.peak = peak,
                      !.exc = "ZeroDivisionError"]
       ELSE [s EXCEPT !.current_capital = current_capital, !.peak = peak,
                      !.drawdown = PyMaxDD(DD(Div(current_capital, peak)), @),
                      !.capital_curve = Append(@, current_capital)]

\* SimpleRow with the bar marked to market before its transition.
SimpleRowMarkFirst(s, row, F) ==
    LET close == Q(row.Close, 1)
        s0 == MarkToMarket([s EXCEPT !.events = {}], close)
    IN IF s0.positions = Zero
       THEN IF row.Buy /\ Lt(Zero, s0.capital) THEN Entry(s0, close, F) ELSE s0
       ELSE IF row.Sell THEN Exit(s0, close, F) ELSE s0

\* One iteration of SimpleStrategy.apply (road_to_billions): exit on Sell.
SimpleRow(s, row, F) ==
    LET close == Q(row.Close, 1)
        s0 == [s EXCEPT !.events = {}]
        s1 == IF s0.positions = Zero
              THEN IF row.Buy /\ Lt(Zero, s0.capital) THEN Entry(s0, close, F) ELSE s0
              ELSE IF row.Sell THEN Exit(s0, close, F) ELSE s0
    IN MarkToMarket(s1, close)

\* SimpleWayneRow leaving the position on the bars with Buy.
SimpleWayneRowExitOnBuy(s, row, F) ==
    LET close == Q(row.Close, 1)
        s0 == [s EXCEPT !.events = {}]
        s1 == IF s0.positions = Zero
              THEN IF row.Buy /\ Lt(Zero, s0.capital) THEN Entry(s0, close, F) ELSE s0
              ELSE IF row.Buy THEN Exit(s0, close, F) ELSE s0
    IN MarkToMarket(s1, close)

\* One iteration of SimpleStrategy.apply (wayne): exit when Buy is false.
SimpleWayneRow(s, row, F) ==
    LET close == Q(row.Close, 1)
        s0 == [s EXCEPT !.events = {}]
        s1 == IF s0.positions = Zero
              THEN IF row.Buy /\ Lt(Zero, s0.capital) THEN Entry(s0, close, F) ELSE s0
              ELSE IF ~row.Buy THEN Exit(s0, close, F) ELSE s0
    IN MarkToMarket(s1, close)

\* TrailingStopRow ratcheting on the bar's low.
TrailingStopRowRatchetLow(s, row, sl, ts, F) ==
    LET close == Q(row.Close, 1)
        high == Q(row.High, 1)
        low == Q(row.Low, 1)
        s0 == [s EXCEPT !.events = {}]
        s1 == IF s0.positions = Zero
              THEN IF row.Buy /\ Lt(Zero, s0.capital)
                   THEN [Entry(s0, close, F) EXCEPT
                            !.stop_loss = Mul(close, OneMinus(sl)),
                            !.trailing_stop = Mul(close, OnePlus(ts))]
                   ELSE s0
              ELSE IF Lt(s0.trailing_stop, high)
              THEN [s0 EXCEPT !.stop_loss = Mul(low, OneMinus(sl)),
                              !.trailing_stop = Mul(high, OnePlus(ts)),
                              !.events = @ \cup {"ratchet"}]
              ELSE IF Lt(low, s0.stop_loss)
              THEN [Exit(s0, s0.stop_loss, F) EXCEPT !.events = @ \cup {"stop"}]
              ELSE s0
    IN MarkToMarket(s1, close)

\* One iteration of the single-resolution TrailingStopStrategy.apply (wayne).
TrailingStopRow(s, row, sl, ts, F) ==
    LET close == Q(row.Close, 1)
        high == Q(row.High, 1)
        low == Q(row.Low, 1)
        s0 == [s EXCEPT !.events = {}]
        s1 == IF s0.positions = Zero
              THEN IF row.Buy /\ Lt(Zero, s0.capital)
                   THEN [Entry(s0, close, F) EXCEPT
                            !.stop_loss = Mul(close, OneMinus(sl)),
                            !.trailing_stop = Mul(close, OnePlus(ts))]
                   ELSE s0
              ELSE IF Lt(s0.trailing_stop, high)
              THEN [s0 EXCEPT !.stop_loss = Mul(high, OneMinus(sl)),
                              !.trailing_stop = Mul(high, OnePlus(ts)),
                              !.events = @ \cup {"ratchet"}]
              ELSE IF Lt(low, s0.stop_loss)
              THEN [Exit(s0, s0.stop_loss, F) EXCEPT !.events = @ \cup {"stop"}]
              ELSE s0
    IN MarkToMarket(s1, close)

\* DayMatches on every hourly bar while daily bars are left.
DayMatchesEveryHour(s, row, days) == s.day < Len(days)

\* The hourly bar row opens when the daily bar at the cursor does:
\* "day < len(self._day_data) and row.name == self._day_data.iloc[day].name".
DayMatches(s, row, days) == s.day < Len(days) /\ row.name = days[s.day + 1].name

\* DualRow with the entry of a matched daily bar evaluated before the
\* stop-loss check of the hourly bar.
DualRowEntryFirst(s, row, days, sl, F) ==
    LET close == Q(row.Close, 1)
        s0 == [s EXCEPT !.events = {}]
        match == s0.day < Len(days) /\ row.name = days[s0.day + 1].name
        day_close == IF match THEN Q(days[s0.day + 1].Close, 1) ELSE Zero
        s1 == IF match /\ s0.positions = Zero /\ days[s0.day + 1].Buy /\ Lt(Zero, s0.capital)
              THEN [Entry(s0, day_close, F) EXCEPT
                       !.stop_loss = Mul(day_close, OneMinus(sl))]
              ELSE s0
        ratchet == PyMax(s1.stop_loss, Mul(close, OneMinus(sl)))
        s2 == IF s1.positions # Zero
              THEN [s1 EXCEPT !.stop_loss = ratchet,
                              !.events = IF ratchet # s1.stop_loss
                                         THEN @ \cup {"ratchet"} ELSE @]
              ELSE s1
        s3 == IF s2.positions # Zero /\ Lt(close, s2.stop_loss)
              THEN [Exit(s2, s2.stop_loss, F) EXCEPT !.events = @ \cup {"stop"}]
              ELSE s2
    IN IF match
       THEN MarkToMarket([s3 EXCEPT !.day = @ + 1, !.events = @ \cup {"match"}], day_close)
       ELSE s3

\* One iteration of the dual-resolution TrailingStopStrategy.apply
\* (road_to_billions): row is an hourly bar, days the daily series.
DualRow(s, row, days, sl, F) ==
    LET close == Q(row.Close, 1)
        s0 == [s EXCEPT !.events = {}]
        ratchet == PyMax(s0.stop_loss, Mul(close, OneMinus(sl)))
        s1 == IF s0.positions # Zero
              THEN [s0 EXCEPT !.stop_loss = ratchet,
                              !.events = IF ratchet # s0.stop_loss
                                         THEN @ \cup {"ratchet"} ELSE @]
              ELSE s0
        s2 == IF s1.positions # Zero /\ Lt(close, s1.stop_loss)
              THEN [Exit(s1, s1.stop_loss, F) EXCEPT !.events = @ \cup {"stop"}]
              ELSE s1
    IN IF DayMatches(s2, row, days)
       THEN LET day_row == days[s2.day + 1]
                day_close == Q(day_row.Close, 1)
                s3 == IF s2.positions = Zero /\ day_row.Buy /\ Lt(Zero, s2.capital)
                      THEN [Entry(s2, day_close, F) EXCEPT
                               !.stop_loss = Mul(day_close, OneMinus(sl))]
                      ELSE s2
                s4 == [s3 EXCEPT !.day = @ + 1, !.events = @ \cup {"match"}]
            IN MarkToMarket(s4, day_close)
       ELSE s2

\* NoStrategy.apply before its loop: the entry at the first close.
NoStrategyEnter(s, first, F) ==
    LET entry_price == Q(first.Close, 1)
        positions == Div(s.capital, entry_price)
    IN [s EXCEPT !.positions = Mul(positions, F.keep),
                 !.platform_fees = AddFee(@, Mul(Mul(positions, entry_price), F.rate)),
                 !.events = {"entry"},
                 !.n_entries = @ + 1,
                 !.pe = entry_price]

\* One iteration of NoStrategy.apply.  current_capital is a numpy float, so
\* a zero peak gives nan instead of raising.
NoStrategyRow(s, row, F) ==
    LET current_capital == Mul(s.positions, Q(row.Close, 1))
        peak == PyMax(current_capital, s.peak)
        current_drawdown == IF peak = Zero THEN NaN
                            ELSE DD(Div(current_capital, peak))
    IN [s EXCEPT !.current_capital = current_capital, !.peak = peak,
                 !.drawdown = PyMaxDD(current_drawdown, @),
                 !.capital_curve = Append(@, current_capital),
                 !.events = {}]

\* NoStrategyLeave without "capital *= 0.999".
NoStrategyLeaveUnpaid(s, last, F) ==
    LET capital == Mul(s.positions, Q(last.Close, 1))
    IN [s EXCEPT !.capital = capital,
                 !.platform_fees = AddFee(@, Mul(capital, F.rate)),
                 !.events = {"exit"},
                 !.n_exits = @ + 1,
                 !.px = Q(last.Close, 1)]

\* NoStrategy.apply after its loop: the exit at the last close.  positions is
\* left as it is.
NoStrategyLeave(s, last, F) ==
    LET capital == Mul(s.positions, Q(last.Close, 1))
    IN [s EXCEPT !.capital = Mul(capital, F.keep),
                 !.platform_fees = AddFee(@, Mul(capital, F.rate)),
                 !.events = {"exit"},
                 !.n_exits = @ + 1,
                 !.px = Q(last.Close, 1)]

\* ------------------------------------------------------------ InvestResult
NoResult == [made |-> FALSE]

\* InvestResultValid with capital_start a plain float.
InvestResultValidAnyCapital(capital_start, positions_end, drawdown) ==
    /\ Le(Zero, positions_end)
    /\ DDInUnit(drawdown)

\* The pydantic model: PositiveFloat capital_start, NonNegativeFloat
\* positions_end, drawdown between 0 and 1.  TRUE when the fields validate.
InvestResultValid(capital_start, positions_end, drawdown) ==
    /\ Lt(Zero, capital_start)
    /\ Le(Zero, positions_end)
    /\ DDInUnit(drawdown)

InvestResult(capital_start, capital_end, drawdown, capital_curve, positions_end, fees) ==
    [made |-> TRUE, capital_start |-> capital_start, capital_end |-> capital_end,
     drawdown |-> drawdown, capital_curve |-> capital_curve,
     positions_end |-> positions_end, platform_fees |-> fees]

\* The properties of InvestResult.  A difference of two values of different
\* exponents k is no value n/d * 0.999^k: profit is kept as its two operands.
profit(r) == [minuend |-> r.capital_end, subtrahend |-> r.capital_start]

profit_percentage(r) ==
    IF r.capital_start = Zero
    THEN [raised |-> "ZeroDivisionError"]
    ELSE [raised |-> "", dividend |-> profit(r), divisor |-> r.capital_start, times |-> 100]

capital_structure(r) ==
    IF r.positions_end = Zero
    THEN [text |-> "liquidity"]
    ELSE [text |-> "x", positions |-> r.positions_end,
          price |-> Div(r.capital_end, r.positions_end)]

\* ------------------------------------------------------------------ inputs
\* Starting capitals: Strategy.__init__ stores whatever it is given.
Capitals == {Q(1000, 1), Q(0, 1), Q(-1000, 1)}

\* stop_loss_pct and trailing_stop_pct as given to apply.
Percentages == {[stop_loss_pct |-> Q(1, 5), trailing_stop_pct |-> Q(1, 1000)]}

\* Percentages outside [0, 1]: apply takes its keyword arguments as they come.
BadPercentages == {[stop_loss_pct |-> Q(3, 2), trailing_stop_pct |-> Q(1, 1000)],
                   [stop_loss_pct |-> Q(1, 5), trailing_stop_pct |-> Q(-1, 2)]}

Closes == {90, 100, 120}

\* Daily bars of the signal-driven strategies: High and Low are not read.
SignalBars ==
    {[Close |-> c, High |-> c, Low |-> c, Buy |-> b, Sell |-> x] :
        c \in Closes, b \in BOOLEAN, x \in BOOLEAN}

\* The wayne generators add no Sell column.
BuyBars == {[Close |-> c, High |-> c, Low |-> c, Buy |-> b] : c \in Closes, b \in BOOLEAN}

\* Low, Close, High of the bars of the single-resolution trailing stop.
Candles == {<<100, 100, 100>>, <<75, 90, 100>>, <<80, 90, 100>>,
            <<100, 120, 150>>, <<75, 120, 150>>}

TrailingBars ==
    {[Close |-> c[2], High |-> c[3], Low |-> c[1], Buy |-> b] : c \in Candles, b \in BOOLEAN}

\* Daily bars of the dual-resolution run, and its hourly bars.
DayBars == {[Close |-> c, Buy |-> b] : c \in {100, 150}, b \in BOOLEAN}

HourBars == {[Close |-> 100, Low |-> 75, High |-> 100],
             [Close |-> 150, Low |-> 100, High |-> 160],
             [Close |-> 90, Low |-> 90, High |-> 120]}

\* Open times, in hours.
Times == 0 .. (MaxHours - 1)

\* All series of at most n bars over an alphabet.
SeriesOf(A, n) == UNION {[1 .. m -> A] : m \in 0 .. n}

RECURSIVE Ascending(_)
Ascending(T) ==
    IF T = {} THEN <<>>
    ELSE LET m == CHOOSE x \in T : \A y \in T : x <= y
         IN <<m>> \o Ascending(T \ {m})

\* The series with one bar of A at each open time of T, in ascending order,
\* the open time being the row's name.
TimedSeries(T, f) ==
    LET ts == Ascending(T)
    IN [j \in 1 .. Len(ts) |-> [name |-> ts[j]] @@ f[ts[j]]]

TimedSeriesOf(A, n) ==
    {TimedSeries(T, f) : <<T, f>> \in
        UNION {{<<T, f>> : f \in [T -> A]} : T \in {U \in SUBSET Times : Cardinality(U) <= n}}}

\* ------------------------------------------------------------------- state
VARIABLES strategy, capital_start, day_data, hour_data, percentages,
          pc, i, run, result, raised,
          calls, gen, shared, fetch, batch

vars == <<strategy, capital_start, day_data, hour_data, percentages,
          pc, i, run, result, raised,
          calls, gen, shared, fetch, batch>>

\* What a run of one apply never touches: the outcomes of earlier calls of
\* apply on the same object (calls), the signal generator and its DataFrames
\* (gen), the strategies sharing one series (shared), the data fetch (fetch)
\* and the batch evaluation (batch).
aside == <<calls, gen, shared, fetch, batch>>

Idle == [pc |-> "idle"]

\* Nothing but one strategy object is at work.
Apart ==
    /\ calls = <<>>
    /\ gen = Idle
    /\ shared = Idle
    /\ fetch = Idle
    /\ batch = Idle

inputs == <<strategy, capital_start, day_data, hour_data, percentages>>

NoPercentages == [stop_loss_pct |-> Zero, trailing_stop_pct |-> Zero]

\* Strategy.__init__ (and TrailingStopStrategy.__init__): the fields are stored
\* as given.
Constructed(kind, capital, days, hours, pcts) ==
    /\ strategy = kind
    /\ capital_start = capital
    /\ day_data = days
    /\ hour_data = hours
    /\ percentages = pcts
    /\ pc = "constructed"
    /\ i = 0
    /\ run = InitRun(capital)
    /\ result = NoResult
    /\ raised = ""

\* The series a run is explored on: every series when the capital is positive,
\* the short ones otherwise (such a run never enters a position).
Explored(capital, days, hours) ==
    IF Lt(Zero, capital) THEN TRUE
    ELSE Len(days) <= MaxBarsUnfunded /\ Len(hours) <= MaxBarsUnfunded

\* Likewise for the percentages: every series when they are within [0, 1],
\* the short ones otherwise.
ExploredWith(pcts, days, hours) ==
    IF pcts \in Percentages THEN TRUE
    ELSE Len(days) <= MaxBarsUnfunded /\ Len(hours) <= MaxBarsUnfunded

Init ==
  /\ Apart
  /\ \E capital \in Capitals :
        \/ \E days \in SeriesOf(SignalBars, MaxBars) :
              \E kind \in {"NoStrategy", "SimpleStrategy"} :
                 /\ Explored(capital, days, <<>>)
                 /\ Constructed(kind, capital, days, <<>>, NoPercentages)
        \/ \E days \in SeriesOf(BuyBars, MaxBars) :
              /\ Explored(capital, days, <<>>)
              /\ Constructed("SimpleStrategyWayne", capital, days, <<>>, NoPercentages)
        \/ \E days \in SeriesOf(TrailingBars, MaxBars), pcts \in Percentages \cup BadPercentages :
              /\ Explored(capital, days, <<>>)
              /\ ExploredWith(pcts, days, <<>>)
              /\ Constructed("TrailingStopStrategyWayne", capital, days, <<>>, pcts)
        \/ \E days \in TimedSeriesOf(DayBars, MaxDays),
              hours \in TimedSeriesOf(HourBars, MaxHours),
              pcts \in Percentages \cup BadPercentages :
              /\ Explored(capital, days, hours)
              /\ ExploredWith(pcts, days, hours)
              /\ Constructed("TrailingStopStrategy", capital, days, hours, pcts)

\* The series the main loop of apply iterates over.
Rows == IF strategy = "TrailingStopStrategy" THEN hour_data ELSE day_data

\* RowOf with SimpleStrategy iterating as the wayne SimpleStrategy does.
RowOfBuyOnly(kind, s, row, days, pcts, F) ==
    CASE kind = "SimpleStrategy" -> SimpleWayneRow(s, row, F)
      [] kind = "SimpleStrategyWayne" -> SimpleWayneRow(s, row, F)
      [] kind = "TrailingStopStrategyWayne" ->
            TrailingStopRow(s, row, pcts.stop_loss_pct, pcts.trailing_stop_pct, F)
      [] kind = "TrailingStopStrategy" -> DualRow(s, row, days, pcts.stop_loss_pct, F)
      [] kind = "NoStrategy" -> NoStrategyRow(s, row, F)

\* One iteration of the loop of apply, for the strategy at hand.
RowOf(kind, s, row, days, pcts, F) ==
    CASE kind = "SimpleStrategy" -> SimpleRow(s, row, F)
      [] kind = "SimpleStrategyWayne" -> SimpleWayneRow(s, row, F)
      [] kind = "TrailingStopStrategyWayne" ->
            TrailingStopRow(s, row, pcts.stop_loss_pct, pcts.trailing_stop_pct, F)
      [] kind = "TrailingStopStrategy" -> DualRow(s, row, days, pcts.stop_loss_pct, F)
      [] kind = "NoStrategy" -> NoStrategyRow(s, row, F)

\* Begin with the locals of apply kept from the call before.
BeginResumed ==
    /\ pc = "constructed"
    /\ IF strategy = "NoStrategy"
       THEN IF Len(day_data) = 0
            THEN /\ pc' = "raised"
                 /\ raised' = "IndexError"
                 /\ run' = run
            ELSE /\ pc' = "loop"
                 /\ raised' = raised
                 /\ run' = NoStrategyEnter(run, day_data[1], Fee)
       ELSE /\ pc' = "loop"
            /\ raised' = raised
            /\ run' = run
    /\ UNCHANGED <<inputs, i, result, aside>>

\* apply up to its loop.  NoStrategy reads iloc[0], which raises on an empty
\* series, and enters at once.
Begin ==
    /\ pc = "constructed"
    /\ IF strategy = "NoStrategy"
       THEN IF Len(day_data) = 0
            THEN /\ pc' = "raised"
                 /\ raised' = "IndexError"
                 /\ run' = InitRun(capital_start)
            ELSE /\ pc' = "loop"
                 /\ raised' = raised
                 /\ run' = NoStrategyEnter(InitRun(capital_start), day_data[1], Fee)
       ELSE /\ pc' = "loop"
            /\ raised' = raised
            /\ run' = InitRun(capital_start)
    /\ UNCHANGED <<inputs, i, result, aside>>

\* One iteration of the loop.
ApplyRow ==
    /\ pc = "loop"
    /\ i < Len(Rows)
    /\ LET next == RowOf(strategy, run, Rows[i + 1], day_data, percentages, Fee)
       IN /\ run' = next
          /\ pc' = IF next.exc = "" THEN "loop" ELSE "raised"
          /\ raised' = next.exc
    /\ i' = i + 1
    /\ UNCHANGED <<inputs, result, aside>>

\* The state apply builds its InvestResult from: NoStrategy leaves at the last
\* close first, the dual-resolution strategy reports drawdown=0.
Final(kind, s, days, F) ==
    CASE kind = "NoStrategy" -> NoStrategyLeave(s, days[Len(days)], F)
      [] kind = "TrailingStopStrategy" -> [s EXCEPT !.drawdown = NoDrawdown]
      [] OTHER -> s

\* capital_end as apply passes it: capital for NoStrategy, current_capital
\* for the others.
CapitalEnd(kind, s) == IF kind = "NoStrategy" THEN s.capital ELSE s.current_capital

\* The end of apply: the InvestResult, or pydantic's ValidationError.
Return ==
    /\ pc = "loop"
    /\ i = Len(Rows)
    /\ LET s == Final(strategy, run, day_data, Fee)
       IN /\ run' = [run EXCEPT !.capital = s.capital, !.platform_fees = s.platform_fees,
                                !.events = s.events, !.n_exits = s.n_exits, !.px = s.px]
          /\ IF InvestResultValid(capital_start, s.positions, s.drawdown)
             THEN /\ pc' = "returned"
                  /\ raised' = raised
                  /\ result' = InvestResult(capital_start, CapitalEnd(strategy, s),
                                           s.drawdown, s.capital_curve, s.positions,
                                           s.platform_fees)
             ELSE /\ pc' = "raised"
                  /\ raised' = "ValidationError"
                  /\ result' = result
    /\ UNCHANGED <<inputs, i, aside>>

Next == Begin \/ ApplyRow \/ Return

Spec == Init /\ [][Next]_vars

\* ------------------------------------------------- the worked example
\* The five closes of the SimpleStrategy example, under every Buy and Sell.
ExampleCloses == <<100, 110, 120, 90, 130>>

ExampleSeries(buy, sell) ==
    [j \in 1 .. Len(ExampleCloses) |->
        [Close |-> ExampleCloses[j], High |-> ExampleCloses[j], Low |-> ExampleCloses[j],
         Buy |-> buy[j], Sell |-> sell[j]]]

InitExample ==
  /\ Apart
  /\ \E buy \in [1 .. Len(ExampleCloses) -> BOOLEAN], sell \in [1 .. Len(ExampleCloses) -> BOOLEAN] :
        Constructed("SimpleStrategy", Q(1000, 1), ExampleSeries(buy, sell), <<>>, NoPercentages)

SpecExample == InitExample /\ [][Next]_vars

\* ------------------------------------------------------- signal generators
\* A float of a pandas column: <<v>>, or <<>> for nan.
nan == <<>>

Num(v) == <<v>>

\* a > b and a < b of two floats: false when either is nan.
FloatGt(a, b) == a # nan /\ b # nan /\ a[1] > b[1]

\* FloatLt with nan taken for 0, as after fillna(0).
FloatLtFilled(a, b) ==
    (IF a = nan THEN 0 ELSE a[1]) < (IF b = nan THEN 0 ELSE b[1])

FloatLt(a, b) == a # nan /\ b # nan /\ a[1] < b[1]

\* A DataFrame is a function from column names to columns, each with one
\* value per bar.  DataFrames live in a heap (a sequence) and are held by
\* reference (the index in the heap).
\* DataFrame.copy() returning the frame itself.
CopyAlias(heap, ref) == [heap |-> heap, ref |-> ref]

\* DataFrame.copy(): a new frame with the same columns.
Copy(heap, ref) == [heap |-> Append(heap, heap[ref]), ref |-> Len(heap) + 1]

\* frame[name] = column.
SetColumn(heap, ref, name, column) == [heap EXCEPT ![ref] = (name :> column) @@ @]

\* What the indicator library returns for a close column: one value per bar,
\* nan where the indicator has no value yet.  The library is a function of the
\* closes; library holds its values on the series at hand.
Indicator(library, name, close) == [j \in 1 .. Len(close) |-> library[name][j]]

\* The values of EMA, RSI and MACD-diff at one bar.  RSI (window 3) has a
\* value before EMA (window 25) has one.
IndicatorRows ==
    {[EMA |-> nan, RSI |-> nan, macd_diff |-> nan],
     [EMA |-> nan, RSI |-> Num(10), macd_diff |-> nan],
     [EMA |-> Num(120), RSI |-> Num(90), macd_diff |-> Num(1)],
     [EMA |-> Num(120), RSI |-> Num(10), macd_diff |-> Num(-2)]}

\* The parameters Wayne.earn_money passes to generate.
EMARSIParameters == [ema_window |-> 25, rsi_window |-> 3,
                     rsi_buy_threshold |-> 82, rsi_sell_threshold |-> 20]

MACDParameters == [macd_buy_threshold |-> 0, macd_sell_threshold |-> -1]

\* EMARSIBuyOrderGenerator.generate: the heap afterwards and the frame returned.
EMARSIGenerate(heap, data, library, kwargs) ==
    LET c == Copy(heap, data)
        new_data == c.ref
        h1 == SetColumn(c.heap, new_data, "EMA",
                        Indicator(library, "EMA", c.heap[new_data]["Close price"]))
        h2 == SetColumn(h1, new_data, "RSI",
                        Indicator(library, "RSI", h1[new_data]["Close price"]))
        n == Len(h2[new_data]["Close price"])
        h3 == SetColumn(h2, new_data, "Buy",
                        [j \in 1 .. n |->
                            /\ FloatGt(h2[new_data]["Close price"][j], h2[new_data]["EMA"][j])
                            /\ FloatGt(h2[new_data]["RSI"][j], Num(kwargs.rsi_buy_threshold))])
        h4 == SetColumn(h3, new_data, "Sell",
                        [j \in 1 .. n |->
                            FloatLt(h3[new_data]["RSI"][j], Num(kwargs.rsi_sell_threshold))])
    IN [heap |-> h4, ref |-> new_data]

\* MACDBuyOrderGenerator.generate.
MACDGenerate(heap, data, library, kwargs) ==
    LET c == Copy(heap, data)
        new_data == c.ref
        n == Len(c.heap[new_data]["Close price"])
        h1 == SetColumn(c.heap, new_data, "Buy",
                        [j \in 1 .. n |->
                            FloatGt(Indicator(library, "macd_diff",
                                              c.heap[new_data]["Close price"])[j],
                                    Num(kwargs.macd_buy_threshold))])
        h2 == SetColumn(h1, new_data, "Sell",
                        [j \in 1 .. n |->
                            FloatLt(Indicator(library, "macd_diff",
                                              h1[new_data]["Close price"])[j],
                                    Num(kwargs.macd_sell_threshold))])
    IN [heap |-> h2, ref |-> new_data]

Generators == {"EMARSIBuyOrderGenerator", "MACDBuyOrderGenerator"}

GenerateOf(kind, heap, data, library) ==
    IF kind = "EMARSIBuyOrderGenerator"
    THEN EMARSIGenerate(heap, data, library, EMARSIParameters)
    ELSE MACDGenerate(heap, data, library, MACDParameters)

\* The raw daily frame of a series, as the client returns it.
RawFrame(days) ==
    ("Open time" :> [j \in 1 .. Len(days) |-> days[j].name])
    @@ ("Close price" :> [j \in 1 .. Len(days) |-> Num(days[j].Close)])

\* The rows iterrows() yields from a signaled frame.
RowsOf(frame) ==
    [j \in 1 .. Len(frame["Close price"]) |->
        [name |-> frame["Open time"][j], Close |-> frame["Close price"][j][1],
         Buy |-> frame["Buy"][j], Sell |-> frame["Sell"][j]]]

\* ------------------------------------------------------- Wayne.earn_money
\* generate, then a strategy on the signaled frame, then apply; and all of it
\* once more, on the same Strategy object or from generate on.
MaxCalls == 1

PriceBars == {[Close |-> c] : c \in {100, 150}}

\* The hourly series of the run: one bar at every hour.
EarnHours == {TimedSeries(Times, [t \in Times |-> b]) : b \in HourBars}

LibraryOf(rows) ==
    [name \in {"EMA", "RSI", "macd_diff"} |-> [j \in 1 .. Len(rows) |-> rows[j][name]]]

InitEarn ==
    /\ \E days \in TimedSeriesOf(PriceBars, MaxDays), g \in Generators :
          \E rows \in [1 .. Len(days) -> IndicatorRows] :
             gen = [generator |-> g, data |-> 1, heap |-> <<RawFrame(days)>>,
                    raw |-> RawFrame(days), library |-> LibraryOf(rows),
                    completed |-> <<>>]
    /\ strategy = ""
    /\ capital_start = Q(1000, 1)
    /\ day_data = <<>>
    /\ hour_data = <<>>
    /\ percentages = NoPercentages
    /\ pc = "raw"
    /\ i = 0
    /\ run = InitRun(Q(1000, 1))
    /\ result = NoResult
    /\ raised = ""
    /\ calls = <<>>
    /\ shared = Idle
    /\ fetch = Idle
    /\ batch = Idle

\* order_generator.generate(...).
Generate ==
    /\ pc = "raw"
    /\ LET g == GenerateOf(gen.generator, gen.heap, gen.data, gen.library)
       IN gen' = [gen EXCEPT !.heap = g.heap, !.completed = Append(@, g.ref)]
    /\ pc' = "generated"
    /\ UNCHANGED <<inputs, i, run, result, raised, calls, shared, fetch, batch>>

\* One of the three strategies on the signaled frame; the same one as before
\* when the run is a repetition.
Construct ==
    /\ pc = "generated"
    /\ \E kind \in {"TrailingStopStrategy", "SimpleStrategy", "NoStrategy"},
          hours \in EarnHours \cup {<<>>}, pcts \in Percentages \cup {NoPercentages} :
          /\ (kind = "TrailingStopStrategy") <=> (hours # <<>>)
          /\ (kind = "TrailingStopStrategy") <=> (pcts # NoPercentages)
          /\ calls # <<>> => (kind = strategy /\ hours = hour_data /\ pcts = percentages)
          /\ strategy' = kind
          /\ hour_data' = hours
          /\ percentages' = pcts
    /\ day_data' = RowsOf(gen.heap[gen.completed[Len(gen.completed)]])
    /\ pc' = "constructed"
    /\ UNCHANGED <<capital_start, i, run, result, raised, aside>>

\* The outcome is kept and the run repeated: apply on the same object, or
\* generate and a new object.
Again ==
    /\ pc \in {"returned", "raised"}
    /\ Len(calls) < MaxCalls
    /\ calls' = Append(calls, [result |-> result, raised |-> raised])
    /\ \/ pc' = "constructed"
       \/ pc' = "raw"
    /\ i' = 0
    /\ result' = NoResult
    /\ raised' = ""
    /\ UNCHANGED <<inputs, run, gen, shared, fetch, batch>>

NextEarn == Generate \/ Construct \/ Begin \/ ApplyRow \/ Return \/ Again

SpecEarn == InitEarn /\ [][NextEarn]_vars

\* -------------------------------------- strategies sharing one series
\* The three Strategy objects of Wayne.earn_money, built on the same signaled
\* frame and the same capital: strategy, capital_start, day_data, hour_data and
\* percentages are what they share, shared.objs is each object's call of apply.
SharedKinds == {"TrailingStopStrategy", "SimpleStrategy", "NoStrategy"}

SharedBars ==
    {[Close |-> 100, Buy |-> TRUE, Sell |-> FALSE], [Close |-> 150, Buy |-> TRUE, Sell |-> FALSE],
     [Close |-> 150, Buy |-> FALSE, Sell |-> TRUE], [Close |-> 100, Buy |-> FALSE, Sell |-> FALSE]}

NewCall == [pc |-> "constructed", i |-> 0, run |-> InitRun(Zero), result |-> NoResult, raised |-> ""]

PercentagesOf(kind, pcts) == IF kind = "TrailingStopStrategy" THEN pcts ELSE NoPercentages

\* The next step of a call of apply (its head, one iteration of its loop, or its
\* return) on the fields capital, days, hours and pcts of the object.
CallStep(o, kind, capital, days, hours, pcts) ==
    LET rows == IF kind = "TrailingStopStrategy" THEN hours ELSE days
    IN IF o.pc = "constructed"
       THEN IF kind = "NoStrategy"
            THEN IF Len(days) = 0
                 THEN [o EXCEPT !.pc = "raised", !.raised = "IndexError",
                                !.run = InitRun(capital)]
                 ELSE [o EXCEPT !.pc = "loop",
                                !.run = NoStrategyEnter(InitRun(capital), days[1], Fee)]
            ELSE [o EXCEPT !.pc = "loop", !.run = InitRun(capital)]
       ELSE IF o.i < Len(rows)
       THEN LET next == RowOf(kind, o.run, rows[o.i + 1], days, pcts, Fee)
            IN [o EXCEPT !.run = next, !.i = @ + 1,
                         !.pc = IF next.exc = "" THEN "loop" ELSE "raised",
                         !.raised = next.exc]
       ELSE LET s == Final(kind, o.run, days, Fee)
            IN IF InvestResultValid(capital, s.positions, s.drawdown)
               THEN [o EXCEPT !.pc = "returned", !.run = s,
                              !.result = InvestResult(capital, CapitalEnd(kind, s),
                                                      s.drawdown, s.capital_curve,
                                                      s.positions, s.platform_fees)]
               ELSE [o EXCEPT !.pc = "raised", !.raised = "ValidationError"]

InitShared ==
    /\ \E days \in TimedSeriesOf(SharedBars, MaxDays), hours \in EarnHours,
          pcts \in Percentages :
          /\ day_data = days
          /\ hour_data = hours
          /\ percentages = pcts
          /\ shared = [objs |-> [k \in SharedKinds |-> NewCall],
                       capital0 |-> Q(1000, 1), day0 |-> days, hour0 |-> hours]
    /\ strategy = ""
    /\ capital_start = Q(1000, 1)
    /\ pc = "shared"
    /\ i = 0
    /\ run = InitRun(Q(1000, 1))
    /\ result = NoResult
    /\ raised = ""
    /\ calls = <<>>
    /\ gen = Idle
    /\ fetch = Idle
    /\ batch = Idle

\* SharedStep with "self._capital_start = capital_end" at the return of apply.
SharedStepKeepingCapital(k) ==
    /\ pc = "shared"
    /\ shared.objs[k].pc \in {"constructed", "loop"}
    /\ LET o == CallStep(shared.objs[k], k, capital_start, day_data, hour_data,
                         PercentagesOf(k, percentages))
       IN /\ shared' = [shared EXCEPT !.objs[k] = o]
          /\ capital_start' = IF o.pc = "returned" THEN o.result.capital_end
                              ELSE capital_start
    /\ UNCHANGED <<strategy, day_data, hour_data, percentages,
                   pc, i, run, result, raised, calls, gen, fetch, batch>>

\* One step of the call of apply of the strategy k, the others being anywhere
\* in theirs.
SharedStep(k) ==
    /\ pc = "shared"
    /\ shared.objs[k].pc \in {"constructed", "loop"}
    /\ shared' = [shared EXCEPT !.objs[k] =
                     CallStep(@, k, capital_start, day_data, hour_data,
                              PercentagesOf(k, percentages))]
    /\ UNCHANGED <<inputs, pc, i, run, result, raised, calls, gen, fetch, batch>>

NextShared == \E k \in SharedKinds : SharedStep(k)

SpecShared == InitShared /\ [][NextShared]_vars

\* The call of apply of one strategy run to its end on given fields.
RECURSIVE RunAlone(_, _, _, _, _, _)
RunAlone(o, kind, capital, days, hours, pcts) ==
    IF o.pc \in {"returned", "raised"} THEN o
    ELSE RunAlone(CallStep(o, kind, capital, days, hours, pcts),
                  kind, capital, days, hours, pcts)

\* ------------------------------------------------------ evaluate_symbols
\* The coin catalog is a list of distinct coins; an InvestResult is kept as its
\* profit, which is all the ranking reads.
MaxCoins == 3

\* The coins of the catalog: a fiat currency, a coin not trading, USDT itself
\* and two coins that pass.
Catalog ==
    {[coin |-> "ADA", is_legal_money |-> FALSE, trading |-> TRUE],
     [coin |-> "BTC", is_legal_money |-> FALSE, trading |-> TRUE],
     [coin |-> "EUR", is_legal_money |-> TRUE, trading |-> TRUE],
     [coin |-> "LUNA", is_legal_money |-> FALSE, trading |-> FALSE],
     [coin |-> "USDT", is_legal_money |-> FALSE, trading |-> TRUE]}

\* The coin names in lexicographic order.
CoinNames == <<"ADA", "BTC", "EUR", "LUNA", "USDT">>

\* a < b of two symbol names f"{coin}USDT", given by their coins.
NameLt(a, b) ==
    (CHOOSE j \in 1 .. Len(CoinNames) : CoinNames[j] = a)
        < (CHOOSE j \in 1 .. Len(CoinNames) : CoinNames[j] = b)

\* The profits a simulation may end with.
Profits == {0, 5}

\* The test of evaluate_symbols with the USDT clause left out.
TradableWithUSDT(coin_info) ==
    ~coin_info.is_legal_money /\ coin_info.trading

\* The test of evaluate_symbols (and of Client.coin_info) on a catalog entry.
Tradable(coin_info) ==
    ~coin_info.is_legal_money /\ coin_info.trading /\ coin_info.coin # "USDT"

\* list.sort(key=profit, reverse=True): descending, elements of equal profit
\* staying in the order they had.
RECURSIVE InsertByProfit(_, _)
InsertByProfit(sorted, x) ==
    IF sorted = <<>> THEN <<x>>
    ELSE IF Head(sorted).result.profit >= x.result.profit
    THEN <<Head(sorted)>> \o InsertByProfit(Tail(sorted), x)
    ELSE <<x>> \o sorted

RECURSIVE SortByProfit(_)
SortByProfit(results) ==
    IF results = <<>> THEN <<>>
    ELSE InsertByProfit(SortByProfit(SubSeq(results, 1, Len(results) - 1)),
                        results[Len(results)])

DistinctCoins(cs) == \A a, b \in 1 .. Len(cs) : a # b => cs[a].coin # cs[b].coin

InitBatch ==
    /\ \E coins_info \in SeriesOf(Catalog, MaxCoins) :
          /\ DistinctCoins(coins_info)
          /\ batch = [pc |-> "loop", coins_info |-> coins_info, idx |-> 0,
                      results |-> <<>>, simulated |-> <<>>, table |-> <<>>]
    /\ strategy = ""
    /\ capital_start = Q(1000, 1)
    /\ day_data = <<>>
    /\ hour_data = <<>>
    /\ percentages = NoPercentages
    /\ pc = "batch"
    /\ i = 0
    /\ run = InitRun(Q(1000, 1))
    /\ result = NoResult
    /\ raised = ""
    /\ calls = <<>>
    /\ gen = Idle
    /\ shared = Idle
    /\ fetch = Idle

\* One iteration of the loop over the catalog: the coin is simulated, and its
\* result kept, when it passes the test.
EvaluateCoin ==
    /\ batch.pc = "loop"
    /\ batch.idx < Len(batch.coins_info)
    /\ LET coin_info == batch.coins_info[batch.idx + 1]
       IN IF Tradable(coin_info)
          THEN \E gain \in Profits :
                  batch' = [batch EXCEPT
                               !.idx = @ + 1,
                               !.simulated = Append(@, coin_info.coin),
                               !.results = Append(@, [coin |-> coin_info.coin,
                                                    result |-> [profit |-> gain]])]
          ELSE batch' = [batch EXCEPT !.idx = @ + 1]
    /\ UNCHANGED <<inputs, pc, i, run, result, raised, calls, gen, shared, fetch>>

\* After the loop: the sort, and the table of the first five.
RankResults ==
    /\ batch.pc = "loop"
    /\ batch.idx = Len(batch.coins_info)
    /\ LET sorted == SortByProfit(batch.results)
       IN batch' = [batch EXCEPT
                       !.pc = "ranked",
                       !.results = sorted,
                       !.table = SubSeq(sorted, 1, IF Len(sorted) < 5 THEN Len(sorted) ELSE 5)]
    /\ UNCHANGED <<inputs, pc, i, run, result, raised, calls, gen, shared, fetch>>

NextBatch == EvaluateCoin \/ RankResults

SpecBatch == InitBatch /\ [][NextBatch]_vars

\* ----------------------------------------------- Client.get_day_hour_data
\* Open times are counted in hours (3600000 ms).  The venue holds one daily bar
\* per day begun and an hourly bar for some of the hours up to now; a request
\* returns at most KlinesLimit bars (1000 in the code) and a day has
\* HoursPerDay hours (24 on the venue).
HoursPerDay == 2
KlinesLimit == 2
MaxNow == 5

FirstOf(seq, n) == SubSeq(seq, 1, IF Len(seq) < n THEN Len(seq) ELSE n)

LastOf(seq, n) == SubSeq(seq, IF Len(seq) < n THEN 1 ELSE Len(seq) - n + 1, Len(seq))

\* ui_klines(interval="1d", limit=limit): the latest daily bars, ascending.
DayKlines(now, limit) ==
    LastOf(Ascending({t \in 0 .. now : t % HoursPerDay = 0}), limit)

\* ui_klines(interval="1h", limit=1000, startTime=start_time): the first hourly
\* bars from start_time on, ascending.
HourKlines(hours, start_time) ==
    FirstOf(Ascending({t \in hours : t >= start_time}), KlinesLimit)

\* The start of the next request, taken at the last bar held.
NextStartTimeAtLast(kls_hour) == kls_hour[Len(kls_hour)]

\* The start of the next request: one hour after the last bar held.
NextStartTime(kls_hour) == kls_hour[Len(kls_hour)] + 1

InitFetch ==
    /\ \E now \in 0 .. MaxNow, limit \in 1 .. MaxDays :
          \E hours \in SUBSET (0 .. now) :
             fetch = [pc |-> "start", now |-> now, hours |-> hours, limit |-> limit,
                      kls_day |-> <<>>, kls_hour |-> <<>>, requests |-> {}, turns |-> 0]
    /\ strategy = ""
    /\ capital_start = Q(1000, 1)
    /\ day_data = <<>>
    /\ hour_data = <<>>
    /\ percentages = NoPercentages
    /\ pc = "fetch"
    /\ i = 0
    /\ run = InitRun(Q(1000, 1))
    /\ result = NoResult
    /\ raised = ""
    /\ calls = <<>>
    /\ gen = Idle
    /\ shared = Idle
    /\ batch = Idle

\* The venue moves on by an hour, with or without a bar for it.
Tick ==
    /\ fetch.pc \in {"start", "loop"}
    /\ fetch.now < MaxNow
    /\ \E traded \in BOOLEAN :
          fetch' = [fetch EXCEPT !.now = @ + 1,
                                 !.hours = IF traded THEN @ \cup {fetch.now + 1} ELSE @]
    /\ UNCHANGED <<inputs, pc, i, run, result, raised, calls, gen, shared, batch>>

\* The daily bars and the first hourly request; iloc[0] raises on no daily bar.
FetchFirst ==
    /\ fetch.pc = "start"
    /\ LET kls_day == DayKlines(fetch.now, fetch.limit)
       IN IF kls_day = <<>>
          THEN fetch' = [fetch EXCEPT !.pc = "raised"]
          ELSE fetch' = [fetch EXCEPT !.pc = "loop",
                                      !.kls_day = kls_day,
                                      !.kls_hour = HourKlines(fetch.hours, kls_day[1])]
    /\ UNCHANGED <<inputs, pc, i, run, result, raised, calls, gen, shared, batch>>

\* The test of the loop and one iteration; iloc[-1] raises on no hourly bar.
\* requests is the set of the further requests made, each with the last bar held
\* when it was made, and turns the number of iterations modulo 2; they are read
\* by no transition.
FetchMore ==
    /\ fetch.pc = "loop"
    /\ IF fetch.kls_hour = <<>>
       THEN fetch' = [fetch EXCEPT !.pc = "raised"]
       ELSE /\ fetch.kls_day[Len(fetch.kls_day)] > fetch.kls_hour[Len(fetch.kls_hour)]
            /\ LET next_start_time == NextStartTime(fetch.kls_hour)
                   next_data == HourKlines(fetch.hours, next_start_time)
               IN fetch' = [fetch EXCEPT
                               !.kls_hour = @ \o next_data,
                               !.turns = (@ + 1) % 2,
                               !.requests = @ \cup {[start_time |-> next_start_time,
                                                      last |-> fetch.kls_hour[Len(fetch.kls_hour)]]}]
    /\ UNCHANGED <<inputs, pc, i, run, result, raised, calls, gen, shared, batch>>

\* The loop is left and both series are returned.
FetchReturn ==
    /\ fetch.pc = "loop"
    /\ fetch.kls_hour # <<>>
    /\ ~(fetch.kls_day[Len(fetch.kls_day)] > fetch.kls_hour[Len(fetch.kls_hour)])
    /\ fetch' = [fetch EXCEPT !.pc = "returned"]
    /\ UNCHANGED <<inputs, pc, i, run, result, raised, calls, gen, shared, batch>>

NextFetch == Tick \/ FetchFirst \/ FetchMore \/ FetchReturn

SpecFetch == InitFetch /\ [][NextFetch]_vars

\* get_day_hour_data runs on: each of its steps is taken when it can be.  The
\* venue is under no obligation to move on.
SpecFetchFair ==
    /\ InitFetch
    /\ [][NextFetch]_vars
    /\ WF_vars(FetchFirst)
    /\ WF_vars(FetchMore)
    /\ WF_vars(FetchReturn)

\* ------------------------------------------------------- whole simulations
RECURSIVE RunRows(_, _, _, _, _, _, _)
RunRows(kind, s, rows, j, days, pcts, F) ==
    IF j > Len(rows) \/ s.exc # "" THEN s
    ELSE RunRows(kind, RowOf(kind, s, rows[j], days, pcts, F), rows, j + 1, days, pcts, F)

\* capital_end of the run on the inputs at hand under the fee model F.
CapitalEndUnder(F) ==
    LET start == IF strategy = "NoStrategy"
                 THEN NoStrategyEnter(InitRun(capital_start), day_data[1], F)
                 ELSE InitRun(capital_start)
        s == RunRows(strategy, start, Rows, 1, day_data, percentages, F)
    IN CapitalEnd(strategy, Final(strategy, s, day_data, F))

\* The capital curve dips below its running peak, the peak starting at peak.
RECURSIVE Dips(_, _)
Dips(peak, curve) ==
    IF curve = <<>> THEN FALSE
    ELSE Lt(Head(curve), peak) \/ Dips(PyMax(Head(curve), peak), Tail(curve))

HourNames == {hour_data[j].name : j \in 1 .. Len(hour_data)}

Aligned == \A j \in 1 .. Len(day_data) : day_data[j].name \in HourNames

Dual == strategy = "TrailingStopStrategy"

Trailing == strategy \in {"TrailingStopStrategy", "TrailingStopStrategyWayne"}

\* --------------------------------------------------------------- claims

\* C1: a run on a non-empty series returns a capital_curve with one entry per
\* daily bar (every strategy; the daily bars are the coarse bars of the
\* dual-resolution run), and never an empty one.
C1_CurveOnePerBar ==
    (pc = "returned" /\ Len(day_data) > 0 /\ (Dual => Len(hour_data) > 0)) =>
        /\ Len(result.capital_curve) = Len(day_data)
        /\ result.capital_curve # <<>>

\* C1, where it holds: the single-series strategies, and the dual-resolution
\* run whose hourly series holds every daily open time.
C1_WhenAligned ==
    (pc = "returned" /\ (Dual => Aligned)) =>
        Len(result.capital_curve) = Len(day_data)

\* C2: the drawdown of the returned InvestResult is 0 exactly when the capital
\* curve never dips below its running peak (the peak starting at the starting
\* capital).
C2_ZeroDrawdownIffNoDip ==
    result.made =>
        (DDIsZero(result.drawdown) <=> ~Dips(capital_start, result.capital_curve))

\* C2, where it holds: every strategy but the dual-resolution one.
C2_SingleSeries ==
    (result.made /\ ~Dual) =>
        (DDIsZero(result.drawdown) <=> ~Dips(capital_start, result.capital_curve))

\* C3: with a positive starting capital (prices are positive), the running
\* drawdown is within [0, 1] after every bar, and so is the drawdown of the
\* returned InvestResult.
C3_DrawdownInUnit ==
    Lt(Zero, capital_start) =>
        /\ DDInUnit(run.drawdown)
        /\ result.made => DDInUnit(result.drawdown)

C3_Witness ==
    /\ pc = "returned"
    /\ ~DDIsZero(run.drawdown)
    /\ run.n_exits > 0

\* C4: the dual-resolution apply never returns a result when some daily bar has
\* no hourly bar of the same open time (it raises an AlignmentError instead).
C4_AlignmentError ==
    (Dual /\ ~Aligned) => (pc # "returned" /\ raised \in {"", "AlignmentError"})

\* C5: apply on an empty series never returns an InvestResult.
C5_EmptySeriesFails ==
    Len(Rows) = 0 => ~result.made

\* C6: no run of apply starts with a starting capital that is not positive.
C6_CapitalRejected ==
    pc # "constructed" => Lt(Zero, capital_start)

\* C7: NoStrategy holds capital_start / p0 * 0.999 units through the whole
\* series, whatever Buy and Sell are, pays one entry and one exit fee, and
\* returns capital_end = capital_start * 0.999 * (pn / p0) * 0.999.
C7_NoStrategyRoundTrip ==
    LET p0 == Q(day_data[1].Close, 1)
        pn == Q(day_data[Len(day_data)].Close, 1)
    IN (strategy = "NoStrategy" /\ pc \in {"loop", "returned"}) =>
          /\ Eq(run.positions, Mul(Div(capital_start, p0), Fee.keep))
          /\ pc = "returned" =>
                /\ Eq(result.capital_end,
                      Mul(Mul(Mul(capital_start, Fee.keep), Div(pn, p0)), Fee.keep))
                /\ run.n_entries = 1
                /\ run.n_exits = 1
                /\ Cardinality(result.platform_fees) = 2

C7_Witness ==
    /\ strategy = "NoStrategy"
    /\ pc = "returned"
    /\ Len(day_data) = 3
    /\ day_data[1].Close # day_data[3].Close
    /\ \E j \in 1 .. 3 : day_data[j].Buy
    /\ \E j \in 1 .. 3 : day_data[j].Sell

\* C8 (as amended): SimpleStrategy enters on the first bar with Buy at
\* units = cash / close * 0.999, stays LONG until the first later bar with
\* Sell, exits there with cash = units * close * 0.999, and holds that cash
\* while no Buy follows; each capital_curve entry is the mark-to-market after
\* the bar.  The example gives [999, 1098.9, 1198.8, 898.2009, 898.2009].
FirstFrom(j, P(_)) ==
    IF \E m \in j .. Len(day_data) : P(m)
    THEN CHOOSE m \in j .. Len(day_data) : P(m) /\ \A q \in j .. (m - 1) : ~P(q)
    ELSE Len(day_data) + 1

IsBuy(j) == day_data[j].Buy

IsSell(j) == day_data[j].Sell

ExampleSignals ==
    /\ \A j \in 1 .. 5 : day_data[j].Buy <=> j = 1
    /\ \A j \in 1 .. 5 : day_data[j].Sell <=> j = 4

C8_SimpleExample ==
    LET b == FirstFrom(1, IsBuy)
        e == FirstFrom(b + 1, IsSell)
        rebuy == FirstFrom(e + 1, IsBuy)
        units == Mul(Div(capital_start, Q(day_data[b].Close, 1)), Fee.keep)
        cash == Mul(Mul(units, Q(day_data[e].Close, 1)), Fee.keep)
        curve == run.capital_curve
    IN /\ \A j \in 1 .. Len(curve) :
            /\ j < b => Eq(curve[j], capital_start)
            /\ (b <= j /\ j < e) => Eq(curve[j], Mul(units, Q(day_data[j].Close, 1)))
            /\ (e <= j /\ j < rebuy) => Eq(curve[j], cash)
       /\ (ExampleSignals /\ pc = "returned") =>
            /\ Eq(units, Q(999, 100))
            /\ Eq(curve[1], Q(999, 1))
            /\ Eq(curve[2], Q(10989, 10))
            /\ Eq(curve[3], Q(11988, 10))
            /\ Eq(curve[4], Q(8982009, 10000))
            /\ Eq(curve[5], Q(8982009, 10000))
            /\ result.capital_curve = curve
            /\ Eq(result.capital_end, Q(8982009, 10000))
            /\ result.positions_end = Zero

C8_Witness == ExampleSignals /\ pc = "returned"

\* C8 as stated: in the example the cash after the exit, entries 4 and 5 of
\* the curve, is 898.10 to the cent.
C8_Original ==
    (ExampleSignals /\ pc = "returned") =>
        \A j \in {4, 5} :
            /\ Le(Q(898095, 1000), run.capital_curve[j])
            /\ Lt(run.capital_curve[j], Q(898105, 1000))

\* C9: a LONG trailing-stop position whose bar has its low below the stop-loss
\* level, the high not above the trailing trigger, exits in that bar at the
\* stop-loss price.
C9_Case ==
    /\ pc = "loop"
    /\ i < Len(Rows)
    /\ Trailing
    /\ run.positions # Zero
    /\ Lt(Q(Rows[i + 1].Low, 1), run.stop_loss)
    /\ ~Dual => ~Lt(run.trailing_stop, Q(Rows[i + 1].High, 1))

C9_StopLossExit ==
    [][C9_Case => (run'.n_exits = run.n_exits + 1 /\ run'.px = run.stop_loss)]_vars

\* C9, where it holds: the single-resolution strategy, with the whole effect.
C9_SingleResolution ==
    [][(C9_Case /\ ~Dual) =>
          LET cash == Mul(run.positions, run.stop_loss)
          IN /\ run'.capital = Mul(cash, Fee.keep)
             /\ run'.platform_fees = AddFee(run.platform_fees, Mul(cash, Fee.rate))
             /\ run'.positions = Zero
             /\ run'.px = run.stop_loss]_vars

\* C10: a SimpleStrategy or TrailingStopStrategy run with exactly one round
\* trip, entered at pe and left at px > pe, returns a capital_end that is at most
\* capital_start * px / pe and below the capital_end of the same run without
\* fees.
OneRoundTrip ==
    /\ pc = "returned"
    /\ strategy # "NoStrategy"
    /\ run.n_entries = 1
    /\ run.n_exits = 1
    /\ Lt(run.pe, run.px)

C10_FeeMonotonicity ==
    OneRoundTrip =>
        /\ Le(result.capital_end, Mul(capital_start, Div(run.px, run.pe)))
        /\ Lt(result.capital_end, CapitalEndUnder(NoFee))

\* C10, where it holds: the single-series strategies.
C10_SingleSeries ==
    (OneRoundTrip /\ ~Dual) =>
        /\ Le(result.capital_end, Mul(capital_start, Div(run.px, run.pe)))
        /\ Lt(result.capital_end, CapitalEndUnder(NoFee))

\* C11: generate and apply, repeated on the unchanged input with the same
\* parameters (apply on the same Strategy object, or generate and apply anew),
\* end as they did before: the same InvestResult in every field, the whole
\* capital_curve included, or the same error; and generate returns equal frames.
C11_Deterministic ==
    /\ pc \in {"returned", "raised"} =>
          \A k \in 1 .. Len(calls) :
              /\ result = calls[k].result
              /\ raised = calls[k].raised
    /\ \A a, b \in 1 .. Len(gen.completed) :
          gen.heap[gen.completed[a]] = gen.heap[gen.completed[b]]

C11_Witness ==
    /\ pc = "returned"
    /\ Len(calls) = 1
    /\ calls[1].result.made
    /\ run.n_entries > 0
    /\ run.n_exits > 0
    /\ Len(gen.completed) = 1

\* C12: apply leaves the starting capital and the daily and hourly series of
\* its Strategy as they were, and each of the strategies applied to the same
\* series, however their calls interleave, ends as it does when run alone.
C12_NoSideEffect ==
    /\ capital_start = shared.capital0
    /\ day_data = shared.day0
    /\ hour_data = shared.hour0
    /\ \A k \in SharedKinds :
          shared.objs[k].pc \in {"returned", "raised"} =>
              LET alone == RunAlone(NewCall, k, shared.capital0, shared.day0, shared.hour0,
                                    PercentagesOf(k, percentages))
              IN /\ shared.objs[k].result = alone.result
                 /\ shared.objs[k].raised = alone.raised

C12_Witness ==
    /\ \A k \in SharedKinds : shared.objs[k].pc = "returned"
    /\ \A k \in SharedKinds : shared.objs[k].run.n_exits > 0
    /\ Len(day_data) = MaxDays

\* The frames generate has returned so far.
Completed == {gen.heap[gen.completed[a]] : a \in 1 .. Len(gen.completed)}

HasValue(x) == x # nan

\* C13: generate leaves the frame it was constructed with as it was (the same
\* bars, the same columns: no EMA, RSI, Buy or Sell added), and what it returns
\* has one row per input bar, in the same order, the original columns kept.
C13_InputUnchanged ==
    /\ gen.heap[gen.data] = gen.raw
    /\ \A out \in Completed :
          /\ \A c \in DOMAIN gen.raw : c \in DOMAIN out /\ out[c] = gen.raw[c]
          /\ {"Buy", "Sell"} \subseteq DOMAIN out
          /\ \A c \in DOMAIN out : Len(out[c]) = Len(gen.raw["Open time"])

C13_Witness ==
    /\ Len(gen.completed) = 2
    /\ Len(gen.raw["Open time"]) = MaxDays
    /\ \E out \in Completed : \E j \in 1 .. MaxDays : out["Buy"][j]

\* C14 (as amended): in the EMA/RSI generator Buy[t] is true exactly when
\* close[t] > EMA[t] and RSI[t] > rsi_buy_threshold, and Sell[t] exactly when
\* RSI[t] < rsi_sell_threshold; in the MACD generator Buy[t] exactly when
\* MACD-diff[t] > macd_buy_threshold and Sell[t] exactly when MACD-diff[t] <
\* macd_sell_threshold.  A signal is false on every bar where an indicator it
\* reads has no value: Buy where EMA or RSI has none, Sell where RSI has none,
\* both where MACD-diff has none.
C14_Signals ==
    \A out \in Completed : \A j \in 1 .. Len(out["Buy"]) :
        LET close == out["Close price"][j][1]
            ema == gen.library["EMA"][j]
            rsi == gen.library["RSI"][j]
            macd_diff == gen.library["macd_diff"][j]
        IN IF gen.generator = "EMARSIBuyOrderGenerator"
           THEN /\ out["EMA"][j] = ema
                /\ out["RSI"][j] = rsi
                /\ out["Buy"][j] <=>
                      /\ HasValue(ema) /\ HasValue(rsi)
                      /\ close > ema[1]
                      /\ rsi[1] > EMARSIParameters.rsi_buy_threshold
                /\ out["Sell"][j] <=>
                      (HasValue(rsi) /\ rsi[1] < EMARSIParameters.rsi_sell_threshold)
                /\ (~HasValue(ema) \/ ~HasValue(rsi)) => ~out["Buy"][j]
                /\ ~HasValue(rsi) => ~out["Sell"][j]
           ELSE /\ out["Buy"][j] <=>
                      (HasValue(macd_diff) /\ macd_diff[1] > MACDParameters.macd_buy_threshold)
                /\ out["Sell"][j] <=>
                      (HasValue(macd_diff) /\ macd_diff[1] < MACDParameters.macd_sell_threshold)
                /\ ~HasValue(macd_diff) => (~out["Buy"][j] /\ ~out["Sell"][j])

\* An EMA/RSI frame with a bar where neither indicator has a value, and a bar
\* where RSI alone has one and Sell is true.
C14_Witness ==
    /\ gen.generator = "EMARSIBuyOrderGenerator"
    /\ \E out \in Completed :
          /\ Len(out["Buy"]) >= 2
          /\ ~HasValue(out["EMA"][1]) /\ ~HasValue(out["RSI"][1])
          /\ ~HasValue(out["EMA"][2]) /\ HasValue(out["RSI"][2]) /\ out["Sell"][2]

\* C14 as stated: Buy and Sell are both false on every bar where EMA or RSI
\* (MACD-diff for the MACD generator) has no value.
C14_Original ==
    \A out \in Completed : \A j \in 1 .. Len(out["Buy"]) :
        LET warming == IF gen.generator = "EMARSIBuyOrderGenerator"
                       THEN ~HasValue(out["EMA"][j]) \/ ~HasValue(out["RSI"][j])
                       ELSE ~HasValue(gen.library["macd_diff"][j])
        IN warming => (~out["Buy"][j] /\ ~out["Sell"][j])

InUnit(p) == Le(Zero, p) /\ Le(p, One)

\* C15: a TrailingStopStrategy.apply whose stop_loss_pct or trailing_stop_pct
\* is outside [0, 1] simulates no bar and returns no result.
C15_ParametersRejected ==
    (Trailing /\ ~(InUnit(percentages.stop_loss_pct) /\ InUnit(percentages.trailing_stop_pct))) =>
        (i = 0 /\ pc # "returned")

\* C16: the ranked list is in descending order of profit, and two results of
\* equal profit are in ascending order of symbol name.
C16_RankedByProfitThenName ==
    batch.pc = "ranked" =>
        \A a, b \in 1 .. Len(batch.results) :
            a < b =>
                \/ batch.results[a].result.profit > batch.results[b].result.profit
                \/ /\ batch.results[a].result.profit = batch.results[b].result.profit
                   /\ NameLt(batch.results[a].coin, batch.results[b].coin)

\* C16, what holds: descending order of profit, results of equal profit in the
\* order of their evaluation.
C16_RankedByProfit ==
    batch.pc = "ranked" =>
        \A a, b \in 1 .. Len(batch.results) :
            a < b =>
                \/ batch.results[a].result.profit > batch.results[b].result.profit
                \/ /\ batch.results[a].result.profit = batch.results[b].result.profit
                   /\ \E x, y \in 1 .. Len(batch.simulated) :
                         /\ x < y
                         /\ batch.simulated[x] = batch.results[a].coin
                         /\ batch.simulated[y] = batch.results[b].coin

\* C18: a simulation is only ever run for a coin that is trading, is not legal
\* money and is not USDT; no other catalog entry is simulated or appears in the
\* results.
C18_OnlyTradable ==
    LET entry(c) == CHOOSE e \in Catalog : e.coin = c
        passes(c) == /\ ~entry(c).is_legal_money
                     /\ entry(c).trading
                     /\ c # "USDT"
    IN /\ \A k \in 1 .. Len(batch.simulated) : passes(batch.simulated[k])
       /\ \A k \in 1 .. Len(batch.results) : passes(batch.results[k].coin)
       /\ \A k \in 1 .. Len(batch.table) : passes(batch.table[k].coin)
       /\ \A k \in 1 .. batch.idx :
             ~passes(batch.coins_info[k].coin) =>
                 /\ \A m \in 1 .. Len(batch.simulated) :
                       batch.simulated[m] # batch.coins_info[k].coin
                 /\ \A m \in 1 .. Len(batch.results) :
                       batch.results[m].coin # batch.coins_info[k].coin

C18_Witness ==
    /\ batch.pc = "ranked"
    /\ Len(batch.coins_info) = MaxCoins
    /\ Len(batch.results) = 1
    /\ \E k \in 1 .. MaxCoins : batch.coins_info[k].coin = "USDT"
    /\ \E k \in 1 .. MaxCoins : batch.coins_info[k].is_legal_money

\* C17: get_day_hour_data returns only with the last hourly open time at or
\* after the last daily one; each further request starts one hour after the last
\* hourly bar held; the hourly bars held are in ascending order of open time,
\* none twice.
C17_HourlyCoversDaily ==
    /\ fetch.pc = "returned" =>
          fetch.kls_hour[Len(fetch.kls_hour)] >= fetch.kls_day[Len(fetch.kls_day)]
    /\ \A r \in fetch.requests : r.start_time = r.last + 1
    /\ \A a, b \in 1 .. Len(fetch.kls_hour) :
          a < b => fetch.kls_hour[a] < fetch.kls_hour[b]

C17_Witness ==
    /\ fetch.pc = "returned"
    /\ fetch.requests # {}
    /\ Len(fetch.kls_day) = MaxDays
    /\ Len(fetch.kls_hour) > KlinesLimit

SignalDriven == strategy # "NoStrategy"

\* C20: in SimpleStrategy and both TrailingStopStrategy variants the run starts
\* FLAT with cash equal to the starting capital, and after every bar the state
\* is FLAT (positions = 0, cash >= 0) or LONG (positions > 0, cash = 0).
C20_FlatOrLong ==
    (SignalDriven /\ pc \in {"loop", "returned"}) =>
        /\ i = 0 => (run.positions = Zero /\ run.capital = capital_start)
        /\ \/ run.positions = Zero /\ Le(Zero, run.capital)
           \/ Lt(Zero, run.positions) /\ run.capital = Zero

\* C20, where it holds: the runs with a positive starting capital.
C20_Funded ==
    (SignalDriven /\ pc \in {"loop", "returned"} /\ Lt(Zero, capital_start)) =>
        /\ i = 0 => (run.positions = Zero /\ run.capital = capital_start)
        /\ \/ run.positions = Zero /\ Le(Zero, run.capital)
           \/ Lt(Zero, run.positions) /\ run.capital = Zero

\* ------------------------------------------------- one bar of the loop
\* The loop of apply is about to process Bar.
Step == pc = "loop" /\ i < Len(Rows)

Bar == Rows[i + 1]

Single == strategy = "TrailingStopStrategyWayne"

Long == run.positions # Zero

\* The bar raised the stop-loss or the trigger of a position held before it.
Ratcheted == Lt(run.stop_loss, run'.stop_loss) \/ Lt(run.trailing_stop, run'.trailing_stop)

\* The bar left the position held before it.
Exited == run.positions # Zero /\ run'.n_exits = run.n_exits + 1

\* C21: in the single-resolution TrailingStopStrategy no bar both ratchets and
\* exits at the stop-loss, and a bar whose low is below the stop-loss raises
\* neither the stop-loss nor the trigger.
C21_RatchetOnlyUnbreached ==
    [][(Step /\ Single /\ Long) =>
          /\ ~(Ratcheted /\ Exited)
          /\ Lt(Q(Bar.Low, 1), run.stop_loss) => ~Ratcheted]_vars

\* C21, what holds: no bar both ratchets and exits, and a bar whose high is
\* above the trigger never exits.
C21_Exclusive ==
    [][(Step /\ Single /\ Long) =>
          /\ ~(Ratcheted /\ Exited)
          /\ Lt(run.trailing_stop, Q(Bar.High, 1)) => ~Exited]_vars

\* The bar entered a position.
Entered == run'.n_entries = run.n_entries + 1

\* The close an entry of the bar is made at: the matched daily bar's in the
\* dual-resolution run.
EntryClose == IF Dual THEN Q(day_data[run.day + 1].Close, 1) ELSE Q(Bar.Close, 1)

\* C22: in a trailing-stop run a bar enters a position only from the state its
\* stop-loss check left FLAT: the bar began FLAT, or its stop-loss check left
\* the position and the entry spends the cash of that exit; the position
\* entered is not checked against the stop-loss in that bar.
C22_StopBeforeEntry ==
    [][(Step /\ Trailing /\ Entered) =>
          LET cash == IF Long THEN Mul(Mul(run.positions, run'.px), Fee.keep)
                      ELSE run.capital
          IN /\ Long => Exited
             /\ run'.positions = Mul(Div(cash, EntryClose), Fee.keep)
             /\ run'.n_exits <= run.n_exits + (IF Long THEN 1 ELSE 0)]_vars

C22_Witness ==
    /\ Dual
    /\ pc = "loop"
    /\ {"stop", "entry"} \subseteq run.events

PercentagesInUnit == InUnit(percentages.stop_loss_pct) /\ InUnit(percentages.trailing_stop_pct)

\* C23: in both TrailingStopStrategy variants, with percentages in [0, 1], the
\* stop-loss level of a position that stays LONG never decreases from one bar
\* to the next: a bar lowers the stop-loss only by entering a new position.
C23_StopLossMonotone ==
    [][(Step /\ Trailing /\ PercentagesInUnit) =>
          /\ Lt(run'.stop_loss, run.stop_loss) => Entered
          /\ (Long /\ run'.positions # Zero /\ ~Entered) =>
                Le(run.stop_loss, run'.stop_loss)]_vars

\* A position whose stop-loss has been raised above its level at the entry.
C23_Witness ==
    /\ Trailing
    /\ pc = "loop"
    /\ PercentagesInUnit
    /\ Long
    /\ Lt(Mul(run.pe, OneMinus(percentages.stop_loss_pct)), run.stop_loss)

\* The bar whose Buy an entry of the bar reads: the matched daily bar in the
\* dual-resolution run.
SignalBar == IF Dual THEN day_data[run.day + 1] ELSE Bar

\* Cash and platform fees as the bar's stop-loss exit, if any, leaves them.
CashAtEntry == IF Long THEN Mul(Mul(run.positions, run'.px), Fee.keep) ELSE run.capital

FeesAtEntry ==
    IF Long THEN AddFee(run.platform_fees, Mul(Mul(run.positions, run'.px), Fee.rate))
    ELSE run.platform_fees

\* C24: in SimpleStrategy and both TrailingStopStrategy variants an entry fires
\* only from FLAT, on a bar with Buy true (the matched daily bar in the
\* dual-resolution run) and cash > 0, and then positions = cash / close * 0.999,
\* the platform fees grow by cash * 0.001 and cash becomes 0.
C24_Entry ==
    [][(Step /\ SignalDriven /\ Entered) =>
          /\ Long => (Dual /\ Exited)
          /\ Dual => Bar.name = SignalBar.name
          /\ SignalBar.Buy
          /\ Lt(Zero, CashAtEntry)
          /\ run'.positions = Mul(Div(CashAtEntry, EntryClose), Fee.keep)
          /\ run'.platform_fees = AddFee(FeesAtEntry, Mul(CashAtEntry, Fee.rate))
          /\ run'.capital = Zero]_vars

C24_Witness ==
    /\ Dual
    /\ pc = "loop"
    /\ "entry" \in run.events
    /\ run.capital = Zero
    /\ hour_data[i].Close # day_data[run.day].Close

\* C25: on every entry both TrailingStopStrategy variants set the stop-loss
\* to the entry close * (1 - stop_loss_pct) and the trailing trigger to the
\* entry close * (1 + trailing_stop_pct).
C25_EntryLevels ==
    [][(Step /\ Trailing /\ Entered) =>
          /\ run'.stop_loss = Mul(EntryClose, OneMinus(percentages.stop_loss_pct))
          /\ run'.trailing_stop = Mul(EntryClose, OnePlus(percentages.trailing_stop_pct))]_vars

\* C25, where it holds: the single-resolution strategy; the dual-resolution
\* one sets the stop-loss alone.
C25_SingleResolution ==
    [][(Step /\ Trailing /\ Entered) =>
          /\ run'.stop_loss = Mul(EntryClose, OneMinus(percentages.stop_loss_pct))
          /\ Single =>
                run'.trailing_stop = Mul(EntryClose, OnePlus(percentages.trailing_stop_pct))]_vars

\* The bar set the stop-loss to high * (1 - stop_loss_pct) and left positions,
\* cash and fees alone.
RatchetedOnHigh ==
    /\ run'.stop_loss = Mul(Q(Bar.High, 1), OneMinus(percentages.stop_loss_pct))
    /\ run'.positions = run.positions
    /\ run'.capital = run.capital
    /\ run'.platform_fees = run.platform_fees

\* C26: in the trailing variants a LONG bar whose high exceeds the trailing
\* trigger sets the stop-loss to high * (1 - stop_loss_pct), leaves positions,
\* cash and fees unchanged and stays LONG; a LONG bar whose high does not
\* exceed the trigger does not raise the stop-loss.  The trigger is the
\* trailing_stop of the single-resolution run; the dual-resolution run keeps
\* none, and any level is accepted for it.
C26_Ratchet ==
    [][(Step /\ Trailing /\ Long /\ ~Entered) =>
          \/ /\ Single => Lt(run.trailing_stop, Q(Bar.High, 1))
             /\ RatchetedOnHigh
          \/ /\ Single => ~Lt(run.trailing_stop, Q(Bar.High, 1))
             /\ ~Lt(run.stop_loss, run'.stop_loss)]_vars

\* C26, where it holds: the single-resolution strategy.
C26_SingleResolution ==
    [][(Step /\ Single /\ Long) =>
          IF Lt(run.trailing_stop, Q(Bar.High, 1))
          THEN RatchetedOnHigh
          ELSE ~Lt(run.stop_loss, run'.stop_loss)]_vars

\* C27: in the wayne SimpleStrategy a LONG position is held on every bar with
\* Buy true and left on the first bar with Buy false, at that bar's close:
\* cash = positions * close * 0.999, fees grown by positions * close * 0.001.
C27_HeldWhileBuy ==
    [][(Step /\ strategy = "SimpleStrategyWayne" /\ Long) =>
          LET cash == Mul(run.positions, Q(Bar.Close, 1))
          IN IF Bar.Buy
             THEN /\ run'.positions = run.positions
                  /\ run'.capital = run.capital
                  /\ run'.platform_fees = run.platform_fees
                  /\ run'.n_exits = run.n_exits
             ELSE /\ run'.positions = Zero
                  /\ run'.capital = Mul(cash, Fee.keep)
                  /\ run'.platform_fees = AddFee(run.platform_fees, Mul(cash, Fee.rate))
                  /\ run'.n_exits = run.n_exits + 1
                  /\ run'.px = Q(Bar.Close, 1)]_vars

\* Entered on the first bar, held on the second with Buy, left on the third.
C27_Witness ==
    /\ strategy = "SimpleStrategyWayne"
    /\ pc = "loop"
    /\ i = 3
    /\ day_data[1].Buy /\ day_data[2].Buy /\ ~day_data[3].Buy
    /\ day_data[3].Close # day_data[1].Close
    /\ run.n_exits = 1
    /\ run.positions = Zero

\* max of peak and the values of curve, as "peak = max(current_capital, peak)"
\* accumulates it.
RECURSIVE PeakOf(_, _)
PeakOf(peak, curve) ==
    IF curve = <<>> THEN peak ELSE PeakOf(PyMax(Head(curve), peak), Tail(curve))

Running == pc \in {"loop", "returned", "raised"}

\* C28: in every strategy the running peak starts at the starting capital, never
\* decreases and equals the maximum of the starting capital and the capital
\* curve so far, so that peak >= starting capital > 0 and no drawdown update
\* divides by zero; the running drawdown never decreases.
C28_PeakAndDrawdown ==
    /\ [](Running =>
            /\ run.peak = PeakOf(capital_start, run.capital_curve)
            /\ Le(capital_start, run.peak)
            /\ Lt(Zero, capital_start)
            /\ raised # "ZeroDivisionError"
            /\ ~run.drawdown.nan)
    /\ [][Step => (Le(run.peak, run'.peak) /\ Le(run'.drawdown.r, run.drawdown.r))]_vars

\* C28, where it holds: the runs with a positive starting capital.
C28_Funded ==
    /\ [](Running /\ Lt(Zero, capital_start) =>
            /\ run.peak = PeakOf(capital_start, run.capital_curve)
            /\ Le(capital_start, run.peak)
            /\ raised # "ZeroDivisionError"
            /\ ~run.drawdown.nan)
    /\ [][(Step /\ Lt(Zero, capital_start)) =>
             (Le(run.peak, run'.peak) /\ Le(run'.drawdown.r, run.drawdown.r))]_vars

\* The hourly bar at hand is the one of the daily bar the cursor is at.
Matched == Dual /\ run.day < Len(day_data) /\ Bar.name = day_data[run.day + 1].name

EntryCondition == ~Long /\ SignalBar.Buy /\ Lt(Zero, run.capital)

\* No transition condition of the strategy holds on the bar at hand.
NoTransition ==
    CASE strategy = "NoStrategy" -> TRUE
      [] strategy = "SimpleStrategy" -> ~EntryCondition /\ ~(Long /\ Bar.Sell)
      [] strategy = "SimpleStrategyWayne" -> ~EntryCondition /\ ~(Long /\ ~Bar.Buy)
      [] strategy = "TrailingStopStrategyWayne" ->
            /\ ~EntryCondition
            /\ ~(Long /\ Lt(run.trailing_stop, Q(Bar.High, 1)))
            /\ ~(Long /\ Lt(Q(Bar.Low, 1), run.stop_loss))
      [] strategy = "TrailingStopStrategy" ->
            /\ ~(Matched /\ EntryCondition)
            /\ ~(Long /\ Lt(run.stop_loss,
                            Mul(Q(Bar.Close, 1), OneMinus(percentages.stop_loss_pct))))
            /\ ~(Long /\ Lt(Q(Bar.Close, 1), run.stop_loss))

\* The bar is recorded in the capital curve at this close: every bar of a
\* single series, the matched daily bar of the dual-resolution run.
Recorded == ~Dual \/ Matched

RecordedClose == IF Dual THEN Q(day_data[run.day + 1].Close, 1) ELSE Q(Bar.Close, 1)

\* C29: a bar on which no transition condition holds leaves cash, positions,
\* stop-loss, trailing trigger and platform fees unchanged and only appends the
\* mark-to-market capital (cash if FLAT, positions * close if LONG) to the
\* capital curve; a position that is held is never added to.
C29_NoOp ==
    [][Step =>
          /\ NoTransition =>
                /\ run'.capital = run.capital
                /\ run'.positions = run.positions
                /\ run'.stop_loss = run.stop_loss
                /\ run'.trailing_stop = run.trailing_stop
                /\ run'.platform_fees = run.platform_fees
                /\ run'.n_entries = run.n_entries /\ run'.n_exits = run.n_exits
                /\ run'.capital_curve =
                      IF Recorded /\ run'.exc = ""
                      THEN Append(run.capital_curve,
                                  IF Long THEN Mul(run.positions, RecordedClose)
                                  ELSE run.capital)
                      ELSE run.capital_curve
          /\ (Long /\ ~Exited) => run'.positions = run.positions]_vars

\* SimpleStrategy held its position on a bar with Buy and without Sell.
C29_Witness ==
    /\ strategy = "SimpleStrategy"
    /\ pc = "loop"
    /\ i >= 2
    /\ Long
    /\ day_data[i].Buy /\ ~day_data[i].Sell
    /\ run.events = {}
    /\ Len(run.capital_curve) = i

\* C30: the cursor of the dual-resolution run over the daily bars starts at 0,
\* advances by exactly one on an hourly bar that opens when the daily bar at the
\* cursor does and on no other hourly bar, never exceeds the number of daily
\* bars, and ends at that number when the hourly series holds every daily open
\* time.
C30_Cursor ==
    /\ [](Dual /\ Running =>
            /\ run.day \in 0 .. Len(day_data)
            /\ i = 0 => run.day = 0
            /\ (pc = "returned" /\ Aligned) => run.day = Len(day_data))
    /\ [][(Step /\ Dual) =>
            run'.day = IF Matched THEN run.day + 1 ELSE run.day]_vars

\* Two daily bars matched among three hourly ones, and one hourly bar skipped.
C30_Witness ==
    /\ Dual
    /\ pc = "returned"
    /\ Aligned
    /\ Len(day_data) = 2
    /\ Len(hour_data) = 3
    /\ run.day = 2

\* C31: in the dual-resolution TrailingStopStrategy the stop-loss logic runs on
\* every hourly bar of a LONG position, matched or not, against that bar's low:
\* a bar whose low is below the stop-loss leaves the position.
C31_StopOnEveryHour ==
    [][(Step /\ Dual /\ Long) =>
          (Lt(Q(Bar.Low, 1), run.stop_loss) => Exited)]_vars

\* C31, what holds: the stop-loss logic runs on every hourly bar of a LONG
\* position, matched or not, against that bar's close.
C31_OnClose ==
    [][(Step /\ Dual /\ Long) =>
          LET close == Q(Bar.Close, 1)
              level == PyMax(run.stop_loss, Mul(close, OneMinus(percentages.stop_loss_pct)))
          IN /\ Exited <=> Lt(close, level)
             /\ Exited => run'.px = level]_vars

\* C32: in the dual-resolution TrailingStopStrategy an entry happens only on an
\* hourly bar matching the daily bar at the cursor, and only when that daily
\* bar has Buy; current_capital, peak, drawdown and the capital curve are
\* updated on the matched bars only, once each: an unmatched hourly bar enters
\* no position and appends nothing.
C32_MatchedOnly ==
    [][(Step /\ Dual) =>
          /\ Entered => (Matched /\ day_data[run.day + 1].Buy)
          /\ ~Matched =>
                /\ run'.n_entries = run.n_entries
                /\ run'.capital_curve = run.capital_curve
                /\ run'.current_capital = run.current_capital
                /\ run'.peak = run.peak
                /\ run'.drawdown = run.drawdown
          /\ (Matched /\ run'.exc = "") =>
                /\ Len(run'.capital_curve) = Len(run.capital_curve) + 1
                /\ run'.current_capital = run'.capital_curve[Len(run'.capital_curve)]
                /\ run'.current_capital =
                      IF run'.positions = Zero THEN run'.capital
                      ELSE Mul(run'.positions, Q(day_data[run.day + 1].Close, 1))]_vars

\* A position left on an hourly bar that matches no daily bar.
C32_Witness ==
    /\ Dual
    /\ pc = "loop"
    /\ i >= 2
    /\ "stop" \in run.events
    /\ "match" \notin run.events
    /\ Len(run.capital_curve) < i

\* The close the final state is valued at: the last bar's, the last matched
\* daily bar's in the dual-resolution run.
LastClose ==
    IF Dual THEN Q(day_data[run.day].Close, 1) ELSE Q(day_data[Len(day_data)].Close, 1)

\* C33: SimpleStrategy and both TrailingStopStrategy variants return the value
\* of the final state as capital_end: the cash held when positions_end = 0,
\* positions_end * last close otherwise.
C33_CapitalEndIsFinalValue ==
    (pc = "returned" /\ SignalDriven) =>
        result.capital_end =
            IF result.positions_end = Zero THEN run.capital
            ELSE Mul(result.positions_end, LastClose)

\* C33, where it holds: the single-series strategies.
C33_SingleSeries ==
    (pc = "returned" /\ SignalDriven /\ ~Dual) =>
        result.capital_end =
            IF result.positions_end = Zero THEN run.capital
            ELSE Mul(result.positions_end, LastClose)

\* The cash of NoStrategy's exit at the last close, before the fee.
ExitCash == Mul(result.positions_end, Q(day_data[Len(day_data)].Close, 1))

\* C34: the InvestResult NoStrategy returns describes a liquidated position:
\* positions_end = 0 (capital_structure "liquidity"), capital_end the cash after
\* the exit fee, platform_fees = capital_start * 0.001 + exit cash * 0.001.
C34_Liquidated ==
    (strategy = "NoStrategy" /\ pc = "returned") =>
        /\ result.positions_end = Zero
        /\ capital_structure(result).text = "liquidity"
        /\ result.capital_end = run.capital
        /\ result.platform_fees =
              AddFee(AddFee(NoFees, Mul(capital_start, Fee.rate)),
                     Mul(Div(run.capital, Fee.keep), Fee.rate))

\* C34, what holds: capital_end is the cash after the exit fee and
\* platform_fees the two fees, positions_end being the units held to the end.
C34_CashAndFees ==
    (strategy = "NoStrategy" /\ pc = "returned") =>
        /\ result.positions_end =
              Mul(Div(capital_start, Q(day_data[1].Close, 1)), Fee.keep)
        /\ result.capital_end = Mul(ExitCash, Fee.keep)
        /\ result.platform_fees =
              AddFee(AddFee(NoFees, Mul(capital_start, Fee.rate)), Mul(ExitCash, Fee.rate))

\* The bar raised the stop-loss or the trigger of the position it began with.
RatchetFired == Long /\ ~Entered /\ Ratcheted

\* C35: in every strategy at most one transition (entry, ratchet, exit) fires
\* on a bar: a bar that leaves a position enters none.
C35_OneTransition ==
    [][(Step /\ SignalDriven) =>
          /\ ~(Exited /\ Entered)
          /\ ~(Exited /\ RatchetFired)
          /\ Entered => ~Long]_vars

\* C35, where it holds: the single-series strategies; the dual-resolution run
\* never both ratchets and exits on a bar.
C35_SingleSeries ==
    [][(Step /\ SignalDriven) =>
          /\ ~Dual => ~(Exited /\ Entered)
          /\ ~(Exited /\ RatchetFired)
          /\ ~Dual => (Entered => ~Long)]_vars

FetchEnded == fetch.pc \in {"returned", "raised"}

\* The venue holds an hourly bar at or after the last daily bar held.
Served == \E t \in fetch.hours : t >= fetch.kls_day[Len(fetch.kls_day)]

\* C36: get_day_hour_data ends whatever the venue returns, a request without a
\* new hourly bar included.
C36_Terminates == <>FetchEnded

\* C36, what holds: the loop ends once the venue holds an hourly bar at or after
\* the last daily bar held.
C36_TerminatesWhenServed ==
    (fetch.pc = "loop" /\ fetch.kls_hour # <<>> /\ Served) ~> FetchEnded

====
